---- MODULE Spec2Model ----
(***************************************************************************)
(* Attendance / leave reconciliation of the DevCabin management system.    *)
(*                                                                         *)
(* The store (profiles, daily_attendance, leave_applications), the clock,  *)
(* the two monthly statistics views (MyMonthlyStats, the per-user view,    *)
(* and AdminMonthlyStats, the team view), the writers of daily_attendance  *)
(* (AttendanceCard, AdminAttendanceManager, auto_mark_absent_members) and  *)
(* of leave_applications (LeaveApplicationForm, AdminLeaveManager) are     *)
(* modelled.                                                               *)
(*                                                                         *)
(* Encoding of values                                                      *)
(*   - a calendar date ("YYYY-MM-DD") is its day number since 2023-01-01,  *)
(*     a Sunday; the order of the strings is the order of the numbers;     *)
(*   - an instant (a JavaScript Date) is a number of hours since           *)
(*     2023-01-01T00:00Z;                                                  *)
(*   - the browser's time zone is a fixed offset tz (hours east of UTC),   *)
(*     without daylight-saving transitions;                                *)
(*   - attendanceRate, a number with one decimal, is kept in tenths        *)
(*     (667 stands for 66.7).                                              *)
(***************************************************************************)
EXTENDS Integers, FiniteSets, Sequences, TLC

VARIABLES
    tz,                  \* offset of the browser's local time, hours east of UTC
    now,                 \* the clock: what new Date() returns
    profiles,            \* table profiles, in the order the query returns it
    daily_attendance,    \* table daily_attendance
    leave_applications,  \* table leave_applications
    selectedMonth,       \* MyMonthlyStats: selectedMonth
    stats,               \* MyMonthlyStats: stats
    loading,             \* MyMonthlyStats: loading
    adminSelectedMonth,  \* AdminMonthlyStats: selectedMonth
    memberStats,         \* AdminMonthlyStats: memberStats
    adminLoading,        \* AdminMonthlyStats: loading
    mounted,             \* the statistics view the page is showing
    attendanceLoading,   \* Attendance (the page): loading
    todayAttendance,     \* Attendance: todayAttendance
    refetch,             \* Attendance: a fetchTodayAttendance is in flight
    isSubmitting,        \* AttendanceCard: isSubmitting
    screenshot,          \* AttendanceCard: screenshot
    notes,               \* AttendanceCard: notes
    call,                \* AttendanceCard: the markAttendance call in flight
    uploads,             \* storage: objects in the bucket attendance-screenshots
    toast,               \* the title of the last toast
    editingMember,       \* AdminAttendanceManager: editingMember
    editData,            \* AdminAttendanceManager: editData
    autoMark,            \* auto_mark_absent_members: the run in progress
    formData,            \* LeaveApplicationForm: formData
    leaveIsSubmitting,   \* LeaveApplicationForm: isSubmitting
    leaveCall,           \* LeaveApplicationForm: the handleSubmit call in flight
    submits,             \* LeaveApplicationForm: submit events so far
    reviews,             \* AdminLeaveManager: the state of each reviewer's session
    fetches              \* the statistics views: the fetches in flight

\* the state of the Attendance page, of its card, of the admin's manager and
\* of the scheduled job
writers == <<attendanceLoading, todayAttendance, refetch,
             isSubmitting, screenshot, notes, call, uploads, toast,
             editingMember, editData, autoMark>>

\* the state of the leave application form, of the reviewers' sessions and
\* of the fetches of the statistics views
pages == <<formData, leaveIsSubmitting, leaveCall, submits, reviews, fetches>>

vars == <<tz, now, profiles, daily_attendance, leave_applications,
          selectedMonth, stats, loading,
          adminSelectedMonth, memberStats, adminLoading, mounted, writers, pages>>

\* what the statistics views read and never write
store == <<tz, now, profiles, daily_attendance, leave_applications, mounted>>

(***************************************************************************)
(* Bound of the model.                                                     *)
(***************************************************************************)
MaxRows == 2    \* rows of daily_attendance and leave_applications together
MaxUploads == 2 \* objects uploaded to the bucket attendance-screenshots
MaxSubmits == 2 \* submit events of the leave application form

(***************************************************************************)
(* Calendar: what the JavaScript Date object computes.                     *)
(***************************************************************************)
IsLeapYear(y) == (y % 4 = 0 /\ y % 100 # 0) \/ y % 400 = 0

\* new Date(year, month, 0).getDate(), month counted from 1
DaysInMonth(y, m) ==
    IF m = 2 THEN (IF IsLeapYear(y) THEN 29 ELSE 28)
    ELSE IF m \in {4, 6, 9, 11} THEN 30 ELSE 31

RECURSIVE DaysBeforeYear(_)
DaysBeforeYear(y) ==
    IF y <= 2023 THEN 0
    ELSE DaysBeforeYear(y - 1) + (IF IsLeapYear(y - 1) THEN 366 ELSE 365)

RECURSIVE DaysBeforeMonth(_, _)
DaysBeforeMonth(y, m) ==
    IF m <= 1 THEN 0 ELSE DaysBeforeMonth(y, m - 1) + DaysInMonth(y, m - 1)

\* the date `${year}-${month}-${day}`
DateNum(y, m, d) == DaysBeforeYear(y) + DaysBeforeMonth(y, m) + (d - 1)

\* Date.prototype.getDay of a calendar date: 0 Sunday .. 6 Saturday
GetDay(date) == date % 7

\* new Date("YYYY-MM-DD"): midnight UTC of that date
ParseDate(date) == date * 24

\* new Date(year, monthIndex, day): midnight local time of that date
LocalMidnight(date) == date * 24 - tz

\* d.toISOString().split('T')[0]: the UTC calendar date of an instant
ISODate(t) == t \div 24

\* the local calendar date of an instant (getFullYear/getMonth/getDate)
LocalDate(t) == (t + tz) \div 24

\* the years the calendar covers, from the epoch on
Years == 2023 .. 2025

\* `${now.getFullYear()}-${String(now.getMonth() + 1).padStart(2, '0')}`
MonthOf(date) ==
    CHOOSE ym \in Years \X (1..12) :
        /\ DateNum(ym[1], ym[2], 1) <= date
        /\ date < DateNum(ym[1], ym[2], 1) + DaysInMonth(ym[1], ym[2])

\* new Date(year, monthIndex - i, 1), as a "YYYY-MM" value
MonthBack(ym, i) ==
    LET idx == ym[1] * 12 + (ym[2] - 1) - i
    IN  <<idx \div 12, (idx % 12) + 1>>

\* generateMonthOptions: the current month and the months before it, of which
\* the model offers the two most recent
generateMonthOptions == { MonthBack(MonthOf(LocalDate(now)), i) : i \in 0..1 }

\* all calendar dates of a month
MonthDates(ym) ==
    LET first == DateNum(ym[1], ym[2], 1)
    IN  first .. (first + DaysInMonth(ym[1], ym[2]) - 1)

(***************************************************************************)
(* The store and the signed-in user.                                       *)
(***************************************************************************)
\* useAuth().profile: the signed-in user, an admin
profile == [id |-> "u1", role |-> "admin"]

AttendanceStatuses == {"present", "absent", "leave"}

\* UNIQUE(user_id, date) of daily_attendance
UniqueUserDate(rows) ==
    \A r1, r2 \in rows : (r1.user_id = r2.user_id /\ r1.date = r2.date) => r1 = r2

(***************************************************************************)
(* Shared arithmetic of the two views.                                     *)
(***************************************************************************)
\* variant: Math.floor in place of Math.round
MathRoundDown(num, den) == num \div den

\* Math.round(x): the integer nearest to num/den, halves rounded up
MathRound(num, den) == (2 * num + den) \div (2 * den)

\* Math.round(((present + leave) / total) * 100 * 10) / 10, in tenths;
\* the guard totalWorkingDays > 0 ? ... : 0
AttendanceRate(presentDays, leaveDaysCount, totalWorkingDays) ==
    IF totalWorkingDays > 0
    THEN MathRound((presentDays + leaveDaysCount) * 1000, totalWorkingDays)
    ELSE 0

\* variant: the dates between the two ends, whichever comes first
LeaveLoopDatesEitherWay(leave) ==
    (leave.start_date .. leave.end_date) \cup (leave.end_date .. leave.start_date)

\* for (d = new Date(start); d <= end; d.setDate(d.getDate() + 1))
\*     dateStr = d.toISOString().split('T')[0]
\* the date strings the loop produces for one leave application
LeaveLoopDates(leave) ==
    { ISODate(ParseDate(leave.start_date) + 24 * k) :
        k \in { j \in 0..(leave.end_date - leave.start_date) :
                  ParseDate(leave.start_date) + 24 * j <= ParseDate(leave.end_date) } }

\* new Date(parseInt(year), parseInt(month), 0).toISOString().split('T')[0]
EndDate(ym) ==
    ISODate(LocalMidnight(DateNum(ym[1], ym[2], DaysInMonth(ym[1], ym[2]))))

\* `${year}-${month}-01`
StartDate(ym) == DateNum(ym[1], ym[2], 1)

\* variant: the comparison turned round
DateHasPassedReversed(date) == ParseDate(date) > now

\* "Not marked yet, count as absent if date has passed": new Date(date) < new Date()
DateHasPassed(date) == ParseDate(date) < now

(***************************************************************************)
(* MyMonthlyStats (the per-user view).                                     *)
(***************************************************************************)
\* daily_attendance .eq(user_id).gte(date, startDate).lte(date, endDate)
MyAttendanceData(ym) ==
    { r \in daily_attendance :
        /\ r.user_id = profile.id
        /\ r.date >= StartDate(ym)
        /\ r.date <= EndDate(ym) }

\* variant: the query without .eq(status, approved)
MyLeaveDataAnyStatus(ym, table) ==
    { l \in table :
        /\ l.user_id = profile.id
        /\ (l.start_date <= EndDate(ym) \/ l.end_date >= StartDate(ym)) }

\* leave_applications .eq(user_id).eq(status, approved)
\*                    .or(start_date.lte.endDate, end_date.gte.startDate)
\* over the rows of the table leave_applications
MyLeaveData(ym, table) ==
    { l \in table :
        /\ l.user_id = profile.id
        /\ l.status = "approved"
        /\ (l.start_date <= EndDate(ym) \/ l.end_date >= StartDate(ym)) }

\* variant: Saturdays and Sundays left out, as the comment in the code says
MyGetWorkingDaysInMonthWeekdays(ym) ==
    Cardinality({ d \in MonthDates(ym) : GetDay(d) # 0 /\ GetDay(d) # 6 })

\* MyMonthlyStats.getWorkingDaysInMonth
MyGetWorkingDaysInMonth(ym) ==
    Cardinality({ d \in MonthDates(ym) : GetDay(d) # 5 })

\* datesInMonth
MyDatesInMonth(ym) ==
    { d \in MonthDates(ym) : GetDay(d) # 0 /\ GetDay(d) # 6 }

\* leaveDates, from the rows of the leave query
MyLeaveDates(datesInMonth, leaveData) ==
    LET loopDates == UNION { LeaveLoopDates(l) : l \in leaveData }
    IN  { d \in datesInMonth : d \in loopDates }

\* attendanceMap.get(date), from the rows of the attendance query
MyAttendanceMapGet(attendanceData, date) ==
    IF \E r \in attendanceData : r.date = date
    THEN (CHOOSE r \in attendanceData : r.date = date).status
    ELSE "undefined"

\* variant: the attendance record looked up before the leave dates
MyBucketRecordFirst(leaveDates, attendanceData, date) ==
    LET status == MyAttendanceMapGet(attendanceData, date)
    IN  IF status = "present" THEN "present"
        ELSE IF status = "absent" THEN "absent"
        ELSE IF date \in leaveDates THEN "leave"
        ELSE IF DateHasPassed(date) THEN "absent"
        ELSE "none"

\* the bucket the datesInMonth.forEach body puts a date in
MyBucket(leaveDates, attendanceData, date) ==
    IF date \in leaveDates THEN "leave"
    ELSE LET status == MyAttendanceMapGet(attendanceData, date)
         IN  IF status = "present" THEN "present"
             ELSE IF status = "absent" THEN "absent"
             ELSE IF DateHasPassed(date) THEN "absent"
             ELSE "none"

\* variant: the leave days of the applications added up, an array in place
\* of the Set
RECURSIVE MyLeaveDaysSummed(_, _)
MyLeaveDaysSummed(datesInMonth, leaveData) ==
    IF leaveData = {} THEN 0
    ELSE LET l == CHOOSE x \in leaveData : TRUE
         IN  Cardinality({ d \in datesInMonth : d \in LeaveLoopDates(l) })
               + MyLeaveDaysSummed(datesInMonth, leaveData \ {l})

\* leaveDaysCount = leaveDates.size
MyLeaveDaysCount(datesInMonth, leaveData) ==
    Cardinality(MyLeaveDates(datesInMonth, leaveData))

\* the object handed to setStats, table being the rows of leave_applications
MyComputeStats(ym, table) ==
    LET attendanceData == MyAttendanceData(ym)
        leaveData == MyLeaveData(ym, table)
        totalWorkingDays == MyGetWorkingDaysInMonth(ym)
        datesInMonth == MyDatesInMonth(ym)
        leaveDates == MyLeaveDates(datesInMonth, leaveData)
        presentDays == Cardinality({ d \in datesInMonth :
                           MyBucket(leaveDates, attendanceData, d) = "present" })
        absentDays == Cardinality({ d \in datesInMonth :
                          MyBucket(leaveDates, attendanceData, d) = "absent" })
        leaveDaysCount == MyLeaveDaysCount(datesInMonth, leaveData)
    IN  [ totalDays |-> totalWorkingDays,
          presentDays |-> presentDays,
          absentDays |-> absentDays,
          leaveDays |-> leaveDaysCount,
          attendanceRate |-> AttendanceRate(presentDays, leaveDaysCount, totalWorkingDays) ]

(***************************************************************************)
(* AdminMonthlyStats (the team view).                                      *)
(***************************************************************************)
\* profiles .eq(is_active, true), in the order of the table
RECURSIVE ActiveMembers(_)
ActiveMembers(ps) ==
    IF ps = <<>> THEN <<>>
    ELSE IF Head(ps).is_active THEN <<Head(ps).id>> \o ActiveMembers(Tail(ps))
    ELSE ActiveMembers(Tail(ps))

\* daily_attendance .gte(date, startDate).lte(date, endDate)
AdminAttendanceData(ym) ==
    { r \in daily_attendance : r.date >= StartDate(ym) /\ r.date <= EndDate(ym) }

\* leave_applications .eq(status, approved)
\*                    .or(start_date.lte.endDate, end_date.gte.startDate)
\* over the rows of the table leave_applications
AdminLeaveData(ym, table) ==
    { l \in table :
        /\ l.status = "approved"
        /\ (l.start_date <= EndDate(ym) \/ l.end_date >= StartDate(ym)) }

\* AdminMonthlyStats.getWorkingDaysInMonth
AdminGetWorkingDaysInMonth(ym) ==
    Cardinality({ d \in MonthDates(ym) : GetDay(d) # 0 /\ GetDay(d) # 6 })

\* workingDatesInMonth
AdminWorkingDatesInMonth(ym) ==
    { d \in MonthDates(ym) : GetDay(d) # 5 }

\* memberAttendance: attendanceData.filter(a => a.user_id === member.id)
AdminMemberAttendance(attendanceData, member) ==
    { a \in attendanceData : a.user_id = member }

\* memberLeaves: leaveData.filter(l => l.user_id === member.id)
AdminMemberLeaves(leaveData, member) ==
    { l \in leaveData : l.user_id = member }

\* leaveDates of one member
AdminLeaveDates(workingDatesInMonth, memberLeaves) ==
    LET loopDates == UNION { LeaveLoopDates(l) : l \in memberLeaves }
    IN  { d \in workingDatesInMonth : d \in loopDates }

\* attendanceMap.get(date) of one member
AdminAttendanceMapGet(memberAttendance, date) ==
    IF \E r \in memberAttendance : r.date = date
    THEN (CHOOSE r \in memberAttendance : r.date = date).status
    ELSE "undefined"

\* variant: the record counted whether or not the date is a leave date
AdminBucketRecordFirst(leaveDates, memberAttendance, date) ==
    LET status == AdminAttendanceMapGet(memberAttendance, date)
    IN  IF status = "present" THEN "present"
        ELSE IF status = "absent" THEN "absent"
        ELSE IF date \in leaveDates THEN "leave"
        ELSE IF DateHasPassed(date) THEN "absent"
        ELSE "none"

\* the bucket the workingDatesInMonth.forEach body puts a date in
AdminBucket(leaveDates, memberAttendance, date) ==
    IF date \in leaveDates THEN "leave"
    ELSE LET status == AdminAttendanceMapGet(memberAttendance, date)
         IN  IF status = "present" THEN "present"
             ELSE IF status = "absent" THEN "absent"
             ELSE IF DateHasPassed(date) THEN "absent"
             ELSE "none"

\* leaveDaysCount = leaveDates.size
AdminLeaveDaysCount(workingDatesInMonth, memberLeaves) ==
    Cardinality(AdminLeaveDates(workingDatesInMonth, memberLeaves))

\* the row members.map returns for one member
AdminMemberStats(ym, table, member) ==
    LET memberAttendance == AdminMemberAttendance(AdminAttendanceData(ym), member)
        memberLeaves == AdminMemberLeaves(AdminLeaveData(ym, table), member)
        totalWorkingDays == AdminGetWorkingDaysInMonth(ym)
        workingDatesInMonth == AdminWorkingDatesInMonth(ym)
        leaveDates == AdminLeaveDates(workingDatesInMonth, memberLeaves)
        presentDays == Cardinality({ d \in workingDatesInMonth :
                           AdminBucket(leaveDates, memberAttendance, d) = "present" })
        absentDays == Cardinality({ d \in workingDatesInMonth :
                          AdminBucket(leaveDates, memberAttendance, d) = "absent" })
        leaveDaysCount == AdminLeaveDaysCount(workingDatesInMonth, memberLeaves)
    IN  [ id |-> member,
          totalDays |-> totalWorkingDays,
          presentDays |-> presentDays,
          absentDays |-> absentDays,
          leaveDays |-> leaveDaysCount,
          attendanceRate |-> AttendanceRate(presentDays, leaveDaysCount, totalWorkingDays) ]

\* variant: a sort that puts a row before the rows of the same rate
RECURSIVE InsertByRateUnstable(_, _)
InsertByRateUnstable(sorted, row) ==
    IF sorted = <<>> THEN <<row>>
    ELSE IF Head(sorted).attendanceRate > row.attendanceRate
         THEN <<Head(sorted)>> \o InsertByRateUnstable(Tail(sorted), row)
         ELSE <<row>> \o sorted

\* stats.sort((a, b) => b.attendanceRate - a.attendanceRate): a stable sort
RECURSIVE InsertByRate(_, _)
InsertByRate(sorted, row) ==
    IF sorted = <<>> THEN <<row>>
    ELSE IF Head(sorted).attendanceRate >= row.attendanceRate
         THEN <<Head(sorted)>> \o InsertByRate(Tail(sorted), row)
         ELSE <<row>> \o sorted

RECURSIVE SortByRate(_)
SortByRate(rows) ==
    IF rows = <<>> THEN <<>>
    ELSE InsertByRate(SortByRate(SubSeq(rows, 1, Len(rows) - 1)), rows[Len(rows)])

\* the array handed to setMemberStats, table being the rows of leave_applications
AdminComputeStats(ym, table) ==
    LET members == ActiveMembers(profiles)
    IN  SortByRate([ i \in 1..Len(members) |-> AdminMemberStats(ym, table, members[i]) ])

(***************************************************************************)
(* The writers of daily_attendance: values.                                *)
(***************************************************************************)
\* null; a value that may be null is <<>> or <<value>>
Null == <<>>

\* s || null, of a string
OrNull(s) == IF s = "" THEN Null ELSE <<s>>

\* v || '', of a value that may be null
OrEmpty(v) == IF v = Null THEN "" ELSE v[1]

\* now.getHours(): the hour of the day on the browser's clock
GetHours(t) == (t + tz) % 24

\* CURRENT_TIME of the database session, which runs on UTC: its hour
CurrentTimeHour(t) == t % 24

\* variant: the evening limit left out
OutsideWorkingHoursMorningOnly(t) ==
    LET currentHour == GetHours(t)
    IN  currentHour < 8

\* currentHour < 8 || currentHour >= 23
OutsideWorkingHours(t) ==
    LET currentHour == GetHours(t)
    IN  currentHour < 8 \/ currentHour >= 23

\* the row of daily_attendance with a key, null when there is none
\* (.eq(user_id).eq(date).maybeSingle())
MaybeSingle(rows, user, date) ==
    IF \E r \in rows : r.user_id = user /\ r.date = date
    THEN << CHOOSE r \in rows : r.user_id = user /\ r.date = date >>
    ELSE Null

\* variant: an insert that the key does not stop
UpsertAppend(rows, row) == rows \cup {row}

\* INSERT ... ON CONFLICT (user_id, date) DO UPDATE, all columns given:
\* upsert(row, { onConflict: 'user_id,date' })
Upsert(rows, row) ==
    { r \in rows : ~(r.user_id = row.user_id /\ r.date = row.date) } \cup {row}

\* variant: ON CONFLICT (user_id, date) DO UPDATE
InsertDoUpdate(rows, row) ==
    { r \in rows : ~(r.user_id = row.user_id /\ r.date = row.date) } \cup {row}

\* INSERT ... ON CONFLICT (user_id, date) DO NOTHING
InsertDoNothing(rows, row) ==
    IF \E r \in rows : r.user_id = row.user_id /\ r.date = row.date
    THEN rows
    ELSE rows \cup {row}

\* row level security of daily_attendance for the signed-in user: the INSERT
\* policy (WITH CHECK user_id = own profile) is checked on the row an upsert
\* proposes, the UPDATE policy (USING user_id = own profile) on the row it
\* would replace, which has the same user_id
UpsertPermitted(row) == row.user_id = profile.id

\* files the user can pick: file.name, file.type.startsWith('image/') and the
\* public URL of the uploaded object
Files ==
    { [ name |-> "shot.png", image |-> TRUE, publicUrl |-> "attendance-screenshots/shot.png" ],
      [ name |-> "plan.pdf", image |-> FALSE, publicUrl |-> "attendance-screenshots/plan.pdf" ] }

NoteTexts == {"", "late"}

\* variant: the status taken from nothing, always present
CardRowAlwaysPresent(file, screenshotUrl, text, t) ==
    [ user_id |-> profile.id,
      date |-> ISODate(t),
      status |-> "present",
      screenshot_url |-> OrNull(screenshotUrl),
      check_in_time |-> <<t>>,
      notes |-> OrNull(text) ]

\* the row markAttendance hands to upsert, file being the screenshot of the
\* call (null or a file) and t the instant the row is made
CardRow(file, screenshotUrl, text, t) ==
    [ user_id |-> profile.id,
      date |-> ISODate(t),
      status |-> IF file # Null THEN "present" ELSE "absent",
      screenshot_url |-> OrNull(screenshotUrl),
      check_in_time |-> IF file # Null THEN <<t>> ELSE Null,
      notes |-> OrNull(text) ]

\* no markAttendance call in flight
CallIdle == [ pc |-> "idle", screenshot |-> Null, notes |-> "", row |-> Null ]

\* the row handleSaveAttendance hands to upsert
EditRow(member, data, t) ==
    [ user_id |-> member,
      date |-> ISODate(t),
      status |-> data.status,
      check_in_time |-> IF data.status = "present" THEN <<data.check_in_time>> ELSE Null,
      notes |-> OrNull(data.notes),
      screenshot_url |-> OrNull(data.screenshot_url) ]

\* editData before a member is edited
EmptyEditData == [ status |-> "", check_in_time |-> 0, notes |-> "", screenshot_url |-> "" ]

\* the members fetchTeamAttendance lists: the ids of the active profiles
ActiveIds == { profiles[i].id : i \in { j \in 1..Len(profiles) : profiles[j].is_active } }

\* the row auto_mark_absent_members inserts for a member
AutoMarkRow(member, check_date) ==
    [ user_id |-> member,
      date |-> check_date,
      status |-> "absent",
      screenshot_url |-> Null,
      check_in_time |-> Null,
      notes |-> <<"Auto-marked absent - no attendance submitted within working hours (8 AM - 11 PM)">> ]

\* variant: the approved leave applications not looked at
AutoMarkMembersIgnoringLeave(check_date) ==
    { m \in ActiveIds :
        ~\E da \in daily_attendance : da.user_id = m /\ da.date = check_date }

\* the members the FOR loop of auto_mark_absent_members selects
AutoMarkMembers(check_date) ==
    { m \in ActiveIds :
        /\ ~\E da \in daily_attendance : da.user_id = m /\ da.date = check_date
        /\ ~\E la \in leave_applications :
               /\ la.user_id = m
               /\ la.status = "approved"
               /\ la.start_date <= check_date
               /\ la.end_date >= check_date }

\* formData before anything is typed
EmptyFormData == [ startDate |-> Null, endDate |-> Null, reason |-> "" ]

\* the leave form untouched, no reviewer's session open, and the fetch each
\* statistics view starts on mount taken as one step with its response
InitPages ==
    /\ formData = EmptyFormData
    /\ leaveIsSubmitting = FALSE
    /\ leaveCall = Null
    /\ submits = 0
    /\ reviews = <<>>
    /\ fetches = {}

\* the page, the card, the manager and the job before anything has run:
\* the effects on mount have started the two fetches
InitWriters ==
    /\ attendanceLoading = TRUE
    /\ todayAttendance = Null
    /\ refetch = TRUE
    /\ isSubmitting = FALSE
    /\ screenshot = Null
    /\ notes = ""
    /\ call = CallIdle
    /\ uploads = 0
    /\ toast = ""
    /\ editingMember = Null
    /\ editData = EmptyEditData
    /\ autoMark = Null

(***************************************************************************)
(* Initial states: a store of well-formed rows, a clock and a time zone.   *)
(***************************************************************************)
TimeZones == {0, 6}

\* the dates that carry attendance records: 2024-02-29, a Thursday and the
\* last day of its month, then a Friday, a Saturday and a Sunday
AttDates == DateNum(2024, 2, 29) .. DateNum(2024, 3, 3)
AttUsers == {"u1"}

NowDates == { DateNum(2024, 3, 1), DateNum(2024, 3, 4) }
ClockHours == {0, 9}

AttRows == [ user_id : AttUsers, date : AttDates, status : AttendanceStatuses ]

RECURSIVE SubsetsUpTo(_, _)
SubsetsUpTo(S, k) ==
    IF k = 0 THEN { {} }
    ELSE LET smaller == SubsetsUpTo(S, k - 1)
         IN  smaller \cup { T \cup {x} : T \in smaller, x \in S }

AttStores == { S \in SubsetsUpTo(AttRows, MaxRows) : UniqueUserDate(S) }

\* date ranges of leave applications: all of February, a range across the
\* end of February, all of March, a range over a week-end
LeaveRanges ==
    << <<DateNum(2024, 2, 1), DateNum(2024, 2, 29)>>,
       <<DateNum(2024, 2, 29), DateNum(2024, 3, 1)>>,
       <<DateNum(2024, 3, 1), DateNum(2024, 3, 31)>>,
       <<DateNum(2024, 3, 2), DateNum(2024, 3, 4)>> >>

LeaveStatusSeq == <<"pending", "approved", "rejected">>

\* a choice of (range, status), as a number
NumLeaveChoices == Len(LeaveRanges) * Len(LeaveStatusSeq)

LeaveRow(i, c) ==
    LET range == LeaveRanges[(c % Len(LeaveRanges)) + 1]
    IN  [ id |-> i, user_id |-> "u1",
          start_date |-> range[1], end_date |-> range[2],
          status |-> LeaveStatusSeq[(c \div Len(LeaveRanges)) + 1] ]

\* stores of at most maxLeaves applications; the ids, arbitrary in the
\* program, are given in the order of the choices
LeaveStores(maxLeaves) ==
    UNION { { { LeaveRow(i, f[i]) : i \in 1..n } :
              f \in { g \in [1..n -> 0..(NumLeaveChoices - 1)] :
                        \A i \in 1..n : \A j \in 1..n : i <= j => g[i] <= g[j] } } :
            n \in 0..maxLeaves }

ZeroStats ==
    [ totalDays |-> 0, presentDays |-> 0, absentDays |-> 0, leaveDays |-> 0,
      attendanceRate |-> 0 ]

Init ==
    /\ tz \in TimeZones
    /\ now \in { 24 * d + h : d \in NowDates, h \in ClockHours }
    /\ profiles = << [id |-> "u1", is_active |-> TRUE],
                     [id |-> "u2", is_active |-> TRUE],
                     [id |-> "u3", is_active |-> FALSE] >>
    /\ daily_attendance \in AttStores
    /\ leave_applications \in LeaveStores(MaxRows - Cardinality(daily_attendance))
    /\ selectedMonth = MonthOf(LocalDate(now))
    /\ stats = ZeroStats
    /\ loading = TRUE
    /\ adminSelectedMonth = MonthOf(LocalDate(now))
    /\ memberStats = <<>>
    /\ adminLoading = TRUE
    /\ mounted \in {"MyMonthlyStats", "AdminMonthlyStats"}
    /\ InitWriters
    /\ InitPages

(***************************************************************************)
(* Actions.                                                                *)
(***************************************************************************)
\* MyMonthlyStats: the month select's onValueChange; the select is rendered
\* only when loading is false; the effect on selectedMonth then starts
\* fetchMonthlyStats, which sets loading
SetSelectedMonth ==
    \E v \in generateMonthOptions :
        /\ mounted = "MyMonthlyStats"
        /\ ~loading
        /\ v # selectedMonth
        /\ selectedMonth' = v
        /\ loading' = TRUE
        /\ UNCHANGED <<store, stats, adminSelectedMonth, memberStats, adminLoading, writers, pages>>

\* MyMonthlyStats.fetchMonthlyStats, run by the effect
FetchMonthlyStats ==
    /\ mounted = "MyMonthlyStats"
    /\ loading
    /\ stats' = MyComputeStats(selectedMonth, leave_applications)
    /\ loading' = FALSE
    /\ UNCHANGED <<store, selectedMonth, adminSelectedMonth, memberStats, adminLoading, writers, pages>>

\* AdminMonthlyStats: the month select's onValueChange
AdminSetSelectedMonth ==
    \E v \in generateMonthOptions :
        /\ mounted = "AdminMonthlyStats"
        /\ ~adminLoading
        /\ v # adminSelectedMonth
        /\ adminSelectedMonth' = v
        /\ adminLoading' = TRUE
        /\ UNCHANGED <<store, selectedMonth, stats, loading, memberStats, writers, pages>>

\* AdminMonthlyStats.fetchAllMemberStats, run by the effect
FetchAllMemberStats ==
    /\ mounted = "AdminMonthlyStats"
    /\ adminLoading
    /\ memberStats' = AdminComputeStats(adminSelectedMonth, leave_applications)
    /\ adminLoading' = FALSE
    /\ UNCHANGED <<store, selectedMonth, stats, loading, adminSelectedMonth, writers, pages>>

Next ==
    \/ SetSelectedMonth
    \/ FetchMonthlyStats
    \/ AdminSetSelectedMonth
    \/ FetchAllMemberStats

Spec == Init /\ [][Next]_vars

(***************************************************************************)
(* The Attendance page with its card, the admin's manager and the          *)
(* scheduled job: the writers of daily_attendance.                         *)
(***************************************************************************)
\* the instants the clock passes through: 2024-03-01 (UTC) at 02, 09, 16 and
\* 23 h
ClockInstants == { 24 * DateNum(2024, 3, 1) + h : h \in {2, 9, 16, 23} }

\* leave_applications of the writers' page: none, or one approved
\* application of a member over March 2024
AttendanceLeaveStores ==
    { {} } \cup
    { { [ id |-> 1, user_id |-> u,
          start_date |-> DateNum(2024, 3, 1), end_date |-> DateNum(2024, 3, 31),
          status |-> "approved" ] } : u \in {"u1", "u2"} }

\* the page opened at the instant t in one of the time zones
InitAttendanceAt(t, zones) ==
    /\ tz \in zones
    /\ now = t
    /\ profiles = << [id |-> "u1", is_active |-> TRUE],
                     [id |-> "u2", is_active |-> TRUE],
                     [id |-> "u3", is_active |-> FALSE] >>
    /\ daily_attendance = {}
    /\ leave_applications \in AttendanceLeaveStores
    /\ selectedMonth = MonthOf(LocalDate(now))
    /\ stats = ZeroStats
    /\ loading = TRUE
    /\ adminSelectedMonth = MonthOf(LocalDate(now))
    /\ memberStats = <<>>
    /\ adminLoading = TRUE
    /\ mounted = "Attendance"
    /\ InitWriters
    /\ InitPages

\* the page opened in the small hours of 2024-03-01
InitAttendance == InitAttendanceAt(24 * DateNum(2024, 3, 1) + 2, TimeZones)

\* what no writer changes
fixed == <<tz, profiles, leave_applications, mounted,
           selectedMonth, stats, loading, adminSelectedMonth, memberStats, adminLoading,
           pages>>

manager == <<editingMember, editData>>

\* the clock moves on to its next instant
Tick ==
    /\ \E t \in ClockInstants : t > now
    /\ now' = CHOOSE t \in ClockInstants :
                  t > now /\ \A u \in ClockInstants : u > now => t <= u
    /\ UNCHANGED <<fixed, daily_attendance, writers>>

\* Attendance.fetchTodayAttendance, started on mount and by onAttendanceUpdate;
\* on an error todayAttendance keeps its value
FetchTodayAttendance ==
    /\ refetch
    /\ \E ok \in BOOLEAN :
        todayAttendance' = IF ok THEN MaybeSingle(daily_attendance, profile.id, ISODate(now))
                           ELSE todayAttendance
    /\ attendanceLoading' = FALSE
    /\ refetch' = FALSE
    /\ UNCHANGED <<fixed, now, daily_attendance, isSubmitting, screenshot, notes, call,
                   uploads, toast, manager, autoMark>>

\* the card shows its form: the page has loaded and todayAttendance is null
FormShown == ~attendanceLoading /\ todayAttendance = Null

\* AttendanceCard.handleFileSelect
HandleFileSelect ==
    \E file \in Files :
        /\ FormShown
        /\ IF file.image
           THEN screenshot' = <<file>> /\ toast' = toast
           ELSE screenshot' = screenshot /\ toast' = "Invalid file type"
        /\ UNCHANGED <<fixed, now, daily_attendance, attendanceLoading, todayAttendance,
                       refetch, isSubmitting, notes, call, uploads, manager, autoMark>>

\* AttendanceCard: the notes textarea's onChange
SetNotes ==
    \E text \in NoteTexts :
        /\ FormShown
        /\ text # notes
        /\ notes' = text
        /\ UNCHANGED <<fixed, now, daily_attendance, attendanceLoading, todayAttendance,
                       refetch, isSubmitting, screenshot, call, uploads, toast, manager,
                       autoMark>>

\* AttendanceCard.markAttendance, up to its first await; the button is
\* disabled while isSubmitting
MarkAttendance ==
    /\ FormShown
    /\ ~isSubmitting
    /\ uploads < MaxUploads
    /\ IF OutsideWorkingHours(now)
       THEN /\ toast' = "Outside working hours"
            /\ UNCHANGED <<isSubmitting, call>>
       ELSE /\ isSubmitting' = TRUE
            /\ call' = IF screenshot # Null
                       THEN [ pc |-> "upload", screenshot |-> screenshot, notes |-> notes,
                              row |-> Null ]
                       ELSE [ pc |-> "upsert", screenshot |-> Null, notes |-> notes,
                              row |-> << CardRow(Null, "", notes, now) >> ]
            /\ toast' = toast
    /\ UNCHANGED <<fixed, now, daily_attendance, attendanceLoading, todayAttendance,
                   refetch, screenshot, notes, uploads, manager, autoMark>>

\* variant: the form cleared when the call fails
MarkAttendanceCatchClears ==
    /\ toast' = "Error"
    /\ isSubmitting' = FALSE
    /\ call' = CallIdle
    /\ screenshot' = Null
    /\ notes' = ""
    /\ UNCHANGED <<fixed, now, daily_attendance, attendanceLoading, todayAttendance,
                   refetch, uploads, manager, autoMark>>

\* markAttendance: the catch and finally blocks
MarkAttendanceCatch ==
    /\ toast' = "Error"
    /\ isSubmitting' = FALSE
    /\ call' = CallIdle
    /\ UNCHANGED <<fixed, now, daily_attendance, attendanceLoading, todayAttendance,
                   refetch, screenshot, notes, uploads, manager, autoMark>>

\* markAttendance: uploadScreenshot returns or throws
UploadScreenshot ==
    /\ call.pc = "upload"
    /\ \E ok \in BOOLEAN :
        IF ok
        THEN /\ uploads' = uploads + 1
             /\ call' = [ call EXCEPT
                            !.pc = "upsert",
                            !.row = << CardRow(call.screenshot, call.screenshot[1].publicUrl,
                                               call.notes, now) >> ]
             /\ UNCHANGED <<fixed, now, daily_attendance, attendanceLoading, todayAttendance,
                            refetch, isSubmitting, screenshot, notes, toast, manager,
                            autoMark>>
        ELSE MarkAttendanceCatch

\* markAttendance: the upsert returns, with an error or without one
UpsertAttendance ==
    /\ call.pc = "upsert"
    /\ \E ok \in BOOLEAN :
        IF ok /\ UpsertPermitted(call.row[1])
        THEN /\ daily_attendance' = Upsert(daily_attendance, call.row[1])
             /\ toast' = "Attendance marked"
             /\ screenshot' = Null
             /\ notes' = ""
             /\ refetch' = TRUE
             /\ isSubmitting' = FALSE
             /\ call' = CallIdle
             /\ UNCHANGED <<fixed, now, attendanceLoading, todayAttendance, uploads,
                            manager, autoMark>>
        ELSE MarkAttendanceCatch

\* AdminAttendanceManager.handleEditAttendance of a listed member, then the
\* dialog's inputs, on which the admin can set every field of editData: the
\* status is any of the select's items, the check-in time the default of a
\* member without one, and notes and screenshot URL are left empty
HandleEditAttendance ==
    \E member \in ActiveIds, value \in AttendanceStatuses :
        /\ profile.role \in {"admin", "project_manager"}
        /\ editingMember' = <<member>>
        /\ editData' = [ status |-> value, check_in_time |-> now, notes |-> "",
                         screenshot_url |-> "" ]
        /\ UNCHANGED <<fixed, now, daily_attendance, attendanceLoading, todayAttendance,
                       refetch, isSubmitting, screenshot, notes, call, uploads, toast,
                       autoMark>>

\* AdminAttendanceManager.handleSaveAttendance, ok telling whether the upsert
\* request got through to the database; its isSubmitting is true only while
\* the upsert is awaited
HandleSaveAttendanceWith(ok) ==
    /\ editingMember # Null
    /\ LET row == EditRow(editingMember[1], editData, now)
       IN  IF ok /\ UpsertPermitted(row)
           THEN /\ daily_attendance' = Upsert(daily_attendance, row)
                /\ toast' = "Attendance updated"
                /\ editingMember' = Null
                /\ UNCHANGED editData
           ELSE /\ toast' = "Error"
                /\ UNCHANGED <<daily_attendance, manager>>
    /\ UNCHANGED <<fixed, now, attendanceLoading, todayAttendance, refetch, isSubmitting,
                   screenshot, notes, call, uploads, autoMark>>

\* AdminAttendanceManager.handleSaveAttendance
HandleSaveAttendance == \E ok \in BOOLEAN : HandleSaveAttendanceWith(ok)

\* auto_mark_absent_members: the check of the time and the query of the FOR loop
AutoMarkAbsentMembers ==
    /\ autoMark = Null
    /\ LET check_date == ISODate(now)
       IN  IF CurrentTimeHour(now) < 23 \/ AutoMarkMembers(check_date) = {}
           THEN autoMark' = Null
           ELSE autoMark' = << [ check_date |-> check_date,
                                 members |-> AutoMarkMembers(check_date) ] >>
    /\ UNCHANGED <<fixed, now, daily_attendance, attendanceLoading, todayAttendance,
                   refetch, isSubmitting, screenshot, notes, call, uploads, toast, manager>>

\* auto_mark_absent_members: one pass of the FOR loop
AutoMarkInsert ==
    /\ autoMark # Null
    /\ \E m \in autoMark[1].members :
        /\ daily_attendance' =
               InsertDoNothing(daily_attendance, AutoMarkRow(m, autoMark[1].check_date))
        /\ autoMark' = IF autoMark[1].members = {m} THEN Null
                       ELSE << [ autoMark[1] EXCEPT !.members = @ \ {m} ] >>
    /\ UNCHANGED <<fixed, now, attendanceLoading, todayAttendance, refetch, isSubmitting,
                   screenshot, notes, call, uploads, toast, manager>>

\* the page with the card alone
NextCard ==
    \/ Tick
    \/ FetchTodayAttendance
    \/ HandleFileSelect
    \/ SetNotes
    \/ MarkAttendance
    \/ UploadScreenshot
    \/ UpsertAttendance

SpecCard == InitAttendance /\ [][NextCard]_vars

\* the page of an admin in the afternoon of 2024-03-01, on UTC
InitStore == InitAttendanceAt(24 * DateNum(2024, 3, 1) + 16, {0})


\* the page of an admin, and the scheduled job
NextStore ==
    \/ Tick
    \/ FetchTodayAttendance
    \/ HandleFileSelect
    \/ MarkAttendance
    \/ UploadScreenshot
    \/ UpsertAttendance
    \/ HandleEditAttendance
    \/ HandleSaveAttendance
    \/ AutoMarkAbsentMembers
    \/ AutoMarkInsert

SpecStore == InitStore /\ [][NextStore]_vars

(***************************************************************************)
(* The two views over a store with a leave application whose end_date is   *)
(* before its start_date: the table has no constraint on the two dates.    *)
(***************************************************************************)
\* approved applications of the signed-in user that end before they start:
\* within March 2024, and from March back into February
ReversedLeaves ==
    { [ id |-> 0, user_id |-> "u1",
        start_date |-> range[1], end_date |-> range[2], status |-> "approved" ] :
      range \in { <<DateNum(2024, 3, 4), DateNum(2024, 3, 2)>>,
                  <<DateNum(2024, 3, 1), DateNum(2024, 2, 29)>> } }

InitReversed ==
    /\ tz \in TimeZones
    /\ now \in { 24 * d + h : d \in NowDates, h \in ClockHours }
    /\ profiles = << [id |-> "u1", is_active |-> TRUE],
                     [id |-> "u2", is_active |-> TRUE],
                     [id |-> "u3", is_active |-> FALSE] >>
    /\ daily_attendance \in SubsetsUpTo(AttRows, 1)
    /\ \E reversed \in ReversedLeaves, others \in LeaveStores(1) :
           leave_applications = {reversed} \cup others
    /\ selectedMonth = MonthOf(LocalDate(now))
    /\ stats = ZeroStats
    /\ loading = TRUE
    /\ adminSelectedMonth = MonthOf(LocalDate(now))
    /\ memberStats = <<>>
    /\ adminLoading = TRUE
    /\ mounted \in {"MyMonthlyStats", "AdminMonthlyStats"}
    /\ InitWriters
    /\ InitPages

SpecReversed == InitReversed /\ [][Next]_vars

(***************************************************************************)
(* The two views over February 2024 with a full month of records.          *)
(***************************************************************************)
\* the approved application of the signed-in user over 26-27 February 2024
FebLeave ==
    [ id |-> 1, user_id |-> "u1",
      start_date |-> DateNum(2024, 2, 26), end_date |-> DateNum(2024, 2, 27),
      status |-> "approved" ]

\* the Mondays to Fridays of February 2024 outside the application
FebRecordedDates ==
    { d \in MonthDates(<<2024, 2>>) :
        GetDay(d) \in 1..5 /\ ~(FebLeave.start_date <= d /\ d <= FebLeave.end_date) }

\* one record for each of these days: absent on one, present on the others
FebStores ==
    { { [ user_id |-> "u1", date |-> d,
          status |-> IF d = absent THEN "absent" ELSE "present" ] : d \in FebRecordedDates } :
      absent \in FebRecordedDates }

\* the views opened in March 2024
InitFeb ==
    /\ tz \in TimeZones
    /\ now \in { 24 * d + h : d \in NowDates, h \in ClockHours }
    /\ profiles = << [id |-> "u1", is_active |-> TRUE],
                     [id |-> "u2", is_active |-> TRUE],
                     [id |-> "u3", is_active |-> FALSE] >>
    /\ daily_attendance \in FebStores
    /\ leave_applications = {FebLeave}
    /\ selectedMonth = MonthOf(LocalDate(now))
    /\ stats = ZeroStats
    /\ loading = TRUE
    /\ adminSelectedMonth = MonthOf(LocalDate(now))
    /\ memberStats = <<>>
    /\ adminLoading = TRUE
    /\ mounted \in {"MyMonthlyStats", "AdminMonthlyStats"}
    /\ InitWriters
    /\ InitPages

SpecFeb == InitFeb /\ [][Next]_vars

(***************************************************************************)
(* The team view over a team of several members.                           *)
(***************************************************************************)
\* profiles: three active members and an inactive one, or no active member
TeamProfiles ==
    { << [id |-> "u1", is_active |-> TRUE],
         [id |-> "u2", is_active |-> TRUE],
         [id |-> "u3", is_active |-> FALSE],
         [id |-> "u4", is_active |-> TRUE] >>,
      << [id |-> "u3", is_active |-> FALSE] >> }

\* present records of the members on a Thursday, a Saturday and a Sunday
TeamAttRows ==
    [ user_id : {"u1", "u2", "u4"},
      date : {DateNum(2024, 2, 29), DateNum(2024, 3, 2), DateNum(2024, 3, 3)},
      status : {"present"} ]

\* leave_applications of the team: none, or one approved application of a
\* member from 2024-03-02 to 2024-03-04
TeamLeaveStores ==
    { {} } \cup
    { { [ id |-> 1, user_id |-> u,
          start_date |-> DateNum(2024, 3, 2), end_date |-> DateNum(2024, 3, 4),
          status |-> "approved" ] } : u \in {"u2"} }

\* the team view opened on 2024-03-04 at 09:00 UTC
InitTeam ==
    /\ tz \in TimeZones
    /\ now = 24 * DateNum(2024, 3, 4) + 9
    /\ profiles \in TeamProfiles
    /\ daily_attendance \in SUBSET TeamAttRows
    /\ leave_applications \in TeamLeaveStores
    /\ selectedMonth = MonthOf(LocalDate(now))
    /\ stats = ZeroStats
    /\ loading = TRUE
    /\ adminSelectedMonth = MonthOf(LocalDate(now))
    /\ memberStats = <<>>
    /\ adminLoading = TRUE
    /\ mounted = "AdminMonthlyStats"
    /\ InitWriters
    /\ InitPages

NextTeam ==
    \/ AdminSetSelectedMonth
    \/ FetchAllMemberStats

SpecTeam == InitTeam /\ [][NextTeam]_vars

\* memberStats.reduce((sum, m) => sum + m[field], 0)
RECURSIVE Reduce(_, _)
Reduce(rows, field) ==
    IF rows = <<>> THEN 0
    ELSE Reduce(SubSeq(rows, 1, Len(rows) - 1), field) + rows[Len(rows)][field]

\* Math.round((sum / length) * 10) / 10 of rates with one decimal, in tenths,
\* and 0 for no rows: the values the double arithmetic can give.  A mean that
\* is not halfway between two tenths comes out as the nearest tenth; one that
\* is halfway comes out on either side (4.8 + 33.3 gives 19.0, 9.5 + 4.8
\* gives 7.2), and both are outcomes
AverageAttendance(rows) ==
    IF Len(rows) > 0
    THEN LET sum == Reduce(rows, "attendanceRate")
             length == Len(rows)
         IN  IF (2 * sum) % (2 * length) = length
             THEN { sum \div length, (sum \div length) + 1 }
             ELSE { MathRound(sum, length) }
    ELSE {0}

\* variant: the average taken as the rate of the totals over the working days
TeamAveragesOfTotals(rows) ==
    [ totalMembers |-> Len(rows),
      averageAttendance |->
          IF Len(rows) > 0
          THEN { AttendanceRate(Reduce(rows, "presentDays"), Reduce(rows, "leaveDays"),
                                rows[1].totalDays) }
          ELSE {0},
      totalPresent |-> Reduce(rows, "presentDays"),
      totalAbsent |-> Reduce(rows, "absentDays"),
      totalLeave |-> Reduce(rows, "leaveDays") ]

\* teamAverages, computed at each render from memberStats; averageAttendance
\* is given as the set of its possible values
TeamAverages(rows) ==
    [ totalMembers |-> Len(rows),
      averageAttendance |-> AverageAttendance(rows),
      totalPresent |-> Reduce(rows, "presentDays"),
      totalAbsent |-> Reduce(rows, "absentDays"),
      totalLeave |-> Reduce(rows, "leaveDays") ]

(***************************************************************************)
(* LeaveApplicationForm: the writer of new rows of leave_applications.     *)
(***************************************************************************)
\* what the user can type: the value of a date input is '' (null here) or a
\* date; the reason is empty, blank or a text
FormDates == DateNum(2024, 2, 29) .. DateNum(2024, 3, 2)
ReasonTexts == {"", "   ", "sick"}

\* String.prototype.trim
Trim(s) == IF s \in {"", "   "} THEN "" ELSE s

\* new Date(value) of a date input's value: the instant of UTC midnight, or
\* an Invalid Date (null here) for ''
NewDate(value) == IF value = Null THEN Null ELSE << ParseDate(value[1]) >>

\* a < b on two Dates: false when one of them is invalid
DateLess(a, b) == a # Null /\ b # Null /\ a[1] < b[1]

\* today = new Date(); today.setHours(0, 0, 0, 0)
TodaySetHours(t) == << LocalMidnight(LocalDate(t)) >>

\* variant: the order of the two dates not looked at
ValidateNoRange(data, t) ==
    LET start == NewDate(data.startDate)
        today == TodaySetHours(t)
    IN  IF DateLess(start, today) THEN "Invalid date"
        ELSE IF Trim(data.reason) = "" THEN "Missing information"
        ELSE ""

\* handleSubmit's three checks: the title of the toast of the first one
\* that fails, '' when none does
Validate(data, t) ==
    LET start == NewDate(data.startDate)
        end == NewDate(data.endDate)
        today == TodaySetHours(t)
    IN  IF DateLess(start, today) THEN "Invalid date"
        ELSE IF DateLess(end, start) THEN "Invalid date range"
        ELSE IF Trim(data.reason) = "" THEN "Missing information"
        ELSE ""

\* the object handleSubmit hands to insert
LeaveInsert(data) ==
    [ user_id |-> profile.id,
      start_date |-> data.startDate,
      end_date |-> data.endDate,
      reason |-> data.reason,
      status |-> "pending" ]

\* the database takes the row: both DATE columns get a date, and the
\* INSERT policy (WITH CHECK user_id = own profile) holds
LeaveInsertAccepted(row) ==
    /\ row.start_date # Null
    /\ row.end_date # Null
    /\ row.user_id = profile.id

\* the row of leave_applications an accepted insert makes; the id, a random
\* UUID in the program, is the number of the row
LeaveStored(rows, row) ==
    [ id |-> Cardinality(rows) + 1,
      user_id |-> row.user_id,
      start_date |-> row.start_date[1],
      end_date |-> row.end_date[1],
      reason |-> row.reason,
      status |-> row.status,
      approved_by |-> Null,
      approved_at |-> Null ]

\* the form opened in the afternoon of 2024-03-01 (UTC), west of, on and
\* east of UTC
LeaveFormZones == {0 - 5, 0, 6}

InitLeaveForm ==
    /\ tz \in LeaveFormZones
    /\ now = 24 * DateNum(2024, 3, 1) + 16
    /\ profiles = << [id |-> "u1", is_active |-> TRUE],
                     [id |-> "u2", is_active |-> TRUE],
                     [id |-> "u3", is_active |-> FALSE] >>
    /\ daily_attendance = {}
    /\ leave_applications = {}
    /\ selectedMonth = MonthOf(LocalDate(now))
    /\ stats = ZeroStats
    /\ loading = TRUE
    /\ adminSelectedMonth = MonthOf(LocalDate(now))
    /\ memberStats = <<>>
    /\ adminLoading = TRUE
    /\ mounted = "LeaveApplicationForm"
    /\ InitWriters
    /\ InitPages

\* what the form does not change
formFixed == <<tz, now, profiles, daily_attendance, mounted,
               selectedMonth, stats, loading, adminSelectedMonth, memberStats, adminLoading,
               attendanceLoading, todayAttendance, refetch, isSubmitting, screenshot, notes,
               call, uploads, editingMember, editData, autoMark, reviews, fetches>>

\* the onChange of the three inputs; they stay editable while a call is in
\* flight
SetFormData ==
    \E data \in { [formData EXCEPT !.startDate = v] : v \in {Null} \cup { <<d>> : d \in FormDates } }
                \cup { [formData EXCEPT !.endDate = v] : v \in {Null} \cup { <<d>> : d \in FormDates } }
                \cup { [formData EXCEPT !.reason = v] : v \in ReasonTexts } :
        /\ data # formData
        /\ formData' = data
        /\ UNCHANGED <<formFixed, leave_applications, leaveIsSubmitting, leaveCall, submits,
                       toast>>

\* LeaveApplicationForm.handleSubmit, up to its await; the button is disabled
\* while isSubmitting
HandleSubmit ==
    /\ ~leaveIsSubmitting
    /\ submits < MaxSubmits
    /\ submits' = submits + 1
    /\ IF Validate(formData, now) # ""
       THEN /\ toast' = Validate(formData, now)
            /\ UNCHANGED <<leaveIsSubmitting, leaveCall>>
       ELSE /\ leaveIsSubmitting' = TRUE
            /\ leaveCall' = << LeaveInsert(formData) >>
            /\ toast' = toast
    /\ UNCHANGED <<formFixed, leave_applications, formData>>

\* handleSubmit: the insert returns, with an error or without one
InsertLeaveApplication ==
    /\ leaveCall # Null
    /\ \E ok \in BOOLEAN :
        IF ok /\ LeaveInsertAccepted(leaveCall[1])
        THEN /\ leave_applications' =
                    leave_applications \cup { LeaveStored(leave_applications, leaveCall[1]) }
             /\ toast' = "Leave application submitted"
             /\ formData' = EmptyFormData
        ELSE /\ toast' = "Error"
             /\ UNCHANGED <<leave_applications, formData>>
    /\ leaveIsSubmitting' = FALSE
    /\ leaveCall' = Null
    /\ UNCHANGED <<formFixed, submits>>

NextLeaveForm ==
    \/ Tick
    \/ SetFormData
    \/ HandleSubmit
    \/ InsertLeaveApplication

SpecLeaveForm == InitLeaveForm /\ [][NextLeaveForm]_vars

(***************************************************************************)
(* AdminLeaveManager: the reviewers of leave_applications, each in a       *)
(* browser session of their own.                                           *)
(***************************************************************************)
\* the signed-in profiles the component renders for
ReviewerProfiles ==
    { [ id |-> "u1", role |-> "admin" ], [ id |-> "u4", role |-> "project_manager" ] }

Reviewers == { p.id : p \in ReviewerProfiles }

\* the UPDATE policy "Admins can approve/reject leave applications"
LeaveUpdatePermitted(reviewer) ==
    \E p \in ReviewerProfiles : p.id = reviewer /\ p.role \in {"admin", "project_manager"}

\* update({ status, approved_by, approved_at }).eq('id', applicationId)
UpdateLeave(rows, c) ==
    { IF l.id = c.id
      THEN [ l EXCEPT !.status = c.status,
                      !.approved_by = << c.approved_by >>,
                      !.approved_at = << c.approved_at >> ]
      ELSE l : l \in rows }

\* a session of AdminLeaveManager on mount: the effect has started
\* fetchLeaveApplications
ReviewOnMount ==
    [ loading |-> TRUE, refetch |-> TRUE, applications |-> {}, selectedApp |-> Null,
      isProcessing |-> FALSE, call |-> Null ]

\* a pending application of u2 next to one that was rejected earlier
ReviewLeaves ==
    { [ id |-> 1, user_id |-> "u2",
        start_date |-> DateNum(2024, 3, 4), end_date |-> DateNum(2024, 3, 5),
        reason |-> "sick", status |-> "pending",
        approved_by |-> Null, approved_at |-> Null ],
      [ id |-> 2, user_id |-> "u2",
        start_date |-> DateNum(2024, 2, 29), end_date |-> DateNum(2024, 2, 29),
        reason |-> "sick", status |-> "rejected",
        approved_by |-> <<"u1">>, approved_at |-> << 24 * DateNum(2024, 2, 28) + 9 >> ] }

\* two reviewers open the manager in the afternoon of 2024-03-01
InitReview ==
    /\ tz \in TimeZones
    /\ now = 24 * DateNum(2024, 3, 1) + 16
    /\ profiles = << [id |-> "u1", is_active |-> TRUE],
                     [id |-> "u2", is_active |-> TRUE],
                     [id |-> "u3", is_active |-> FALSE],
                     [id |-> "u4", is_active |-> TRUE] >>
    /\ daily_attendance = {}
    /\ leave_applications = ReviewLeaves
    /\ selectedMonth = MonthOf(LocalDate(now))
    /\ stats = ZeroStats
    /\ loading = TRUE
    /\ adminSelectedMonth = MonthOf(LocalDate(now))
    /\ memberStats = <<>>
    /\ adminLoading = TRUE
    /\ mounted = "AdminLeaveManager"
    /\ InitWriters
    /\ formData = EmptyFormData
    /\ leaveIsSubmitting = FALSE
    /\ leaveCall = Null
    /\ submits = 0
    /\ reviews = [ r \in Reviewers |-> ReviewOnMount ]
    /\ fetches = {}

\* what a reviewer's session does not change
reviewFixed == <<tz, now, profiles, daily_attendance, mounted,
                 selectedMonth, stats, loading, adminSelectedMonth, memberStats, adminLoading,
                 attendanceLoading, todayAttendance, refetch, isSubmitting, screenshot, notes,
                 call, uploads, editingMember, editData, autoMark,
                 formData, leaveIsSubmitting, leaveCall, submits, fetches>>

\* AdminLeaveManager.fetchLeaveApplications, started on mount and after an
\* update; on an error applications keeps its value
FetchLeaveApplications ==
    \E r \in Reviewers, ok \in BOOLEAN :
        /\ reviews[r].refetch
        /\ reviews' = [ reviews EXCEPT
                           ![r].applications = IF ok THEN leave_applications ELSE @,
                           ![r].loading = FALSE,
                           ![r].refetch = FALSE ]
        /\ UNCHANGED <<reviewFixed, leave_applications, toast>>

\* the eye button of a listed application: setSelectedApp(app)
SetSelectedApp ==
    \E r \in Reviewers :
        \E app \in reviews[r].applications :
            /\ ~reviews[r].loading
            /\ reviews[r].selectedApp # <<app>>
            /\ reviews' = [ reviews EXCEPT ![r].selectedApp = <<app>> ]
            /\ UNCHANGED <<reviewFixed, leave_applications, toast>>

\* AdminLeaveManager.handleApproveReject, up to its await: the two buttons
\* are rendered for a selected application that is listed and pending, and
\* are disabled while isProcessing
HandleApproveReject ==
    \E r \in Reviewers, status \in {"approved", "rejected"} :
        /\ ~reviews[r].loading
        /\ reviews[r].selectedApp # Null
        /\ \E app \in reviews[r].applications : app.id = reviews[r].selectedApp[1].id
        /\ reviews[r].selectedApp[1].status = "pending"
        /\ ~reviews[r].isProcessing
        /\ reviews' = [ reviews EXCEPT
                           ![r].isProcessing = TRUE,
                           ![r].call = << [ id |-> reviews[r].selectedApp[1].id,
                                            status |-> status,
                                            approved_by |-> r,
                                            approved_at |-> now ] >> ]
        /\ UNCHANGED <<reviewFixed, leave_applications, toast>>

\* handleApproveReject: the update returns, with an error or without one
UpdateLeaveApplication ==
    \E r \in Reviewers, ok \in BOOLEAN :
        /\ reviews[r].call # Null
        /\ IF ok /\ LeaveUpdatePermitted(r)
           THEN /\ leave_applications' = UpdateLeave(leave_applications, reviews[r].call[1])
                /\ toast' = "Application " \o reviews[r].call[1].status
                /\ reviews' = [ reviews EXCEPT
                                   ![r].selectedApp = Null,
                                   ![r].refetch = TRUE,
                                   ![r].isProcessing = FALSE,
                                   ![r].call = Null ]
           ELSE /\ toast' = "Error"
                /\ reviews' = [ reviews EXCEPT
                                   ![r].isProcessing = FALSE,
                                   ![r].call = Null ]
                /\ UNCHANGED leave_applications
        /\ UNCHANGED reviewFixed

NextReview ==
    \/ Tick
    \/ FetchLeaveApplications
    \/ SetSelectedApp
    \/ HandleApproveReject
    \/ UpdateLeaveApplication

SpecReview == InitReview /\ [][NextReview]_vars

(***************************************************************************)
(* The two statistics views with their fetches in flight: a fetch runs     *)
(* with the selectedMonth of the render that started it, and its response  *)
(* comes later.                                                            *)
(***************************************************************************)
\* a view opened on 2024-03-01 over a store of at most one record and one
\* application; the effect on mount has started the fetch of the month
InitRace ==
    /\ tz \in TimeZones
    /\ now \in { 24 * DateNum(2024, 3, 1) + h : h \in ClockHours }
    /\ profiles = << [id |-> "u1", is_active |-> TRUE],
                     [id |-> "u2", is_active |-> TRUE],
                     [id |-> "u3", is_active |-> FALSE] >>
    /\ daily_attendance \in { S \in AttStores : Cardinality(S) <= 1 }
    /\ leave_applications \in LeaveStores(1 - Cardinality(daily_attendance))
    /\ selectedMonth = MonthOf(LocalDate(now))
    /\ stats = ZeroStats
    /\ loading = TRUE
    /\ adminSelectedMonth = MonthOf(LocalDate(now))
    /\ memberStats = <<>>
    /\ adminLoading = TRUE
    /\ mounted \in {"MyMonthlyStats", "AdminMonthlyStats"}
    /\ InitWriters
    /\ formData = EmptyFormData
    /\ leaveIsSubmitting = FALSE
    /\ leaveCall = Null
    /\ submits = 0
    /\ reviews = <<>>
    /\ fetches = { MonthOf(LocalDate(now)) }

\* what the views leave alone besides the store
raceFixed == <<store, writers, formData, leaveIsSubmitting, leaveCall, submits, reviews>>

\* variant: the month select rendered while loading
SetSelectedMonthEffectWhileLoading ==
    \E v \in generateMonthOptions :
        /\ mounted = "MyMonthlyStats"
        /\ v # selectedMonth
        /\ selectedMonth' = v
        /\ loading' = TRUE
        /\ fetches' = fetches \cup {v}
        /\ UNCHANGED <<raceFixed, stats, adminSelectedMonth, memberStats, adminLoading>>

\* MyMonthlyStats: the month select's onValueChange, then the effect on
\* selectedMonth, which calls fetchMonthlyStats up to its first await; the
\* select is rendered only when loading is false
SetSelectedMonthEffect ==
    \E v \in generateMonthOptions :
        /\ mounted = "MyMonthlyStats"
        /\ ~loading
        /\ v # selectedMonth
        /\ selectedMonth' = v
        /\ loading' = TRUE
        /\ fetches' = fetches \cup {v}
        /\ UNCHANGED <<raceFixed, stats, adminSelectedMonth, memberStats, adminLoading>>

\* MyMonthlyStats.fetchMonthlyStats from its awaits on: the queries of a
\* fetch in flight return, with an error or without one
FetchMonthlyStatsResponse ==
    \E month \in fetches, ok \in BOOLEAN :
        /\ mounted = "MyMonthlyStats"
        /\ stats' = IF ok THEN MyComputeStats(month, leave_applications) ELSE stats
        /\ loading' = FALSE
        /\ fetches' = fetches \ {month}
        /\ UNCHANGED <<raceFixed, selectedMonth, adminSelectedMonth, memberStats, adminLoading>>

\* AdminMonthlyStats: the month select's onValueChange, then the effect
AdminSetSelectedMonthEffect ==
    \E v \in generateMonthOptions :
        /\ mounted = "AdminMonthlyStats"
        /\ ~adminLoading
        /\ v # adminSelectedMonth
        /\ adminSelectedMonth' = v
        /\ adminLoading' = TRUE
        /\ fetches' = fetches \cup {v}
        /\ UNCHANGED <<raceFixed, selectedMonth, stats, loading, memberStats>>

\* AdminMonthlyStats.fetchAllMemberStats from its awaits on
FetchAllMemberStatsResponse ==
    \E month \in fetches, ok \in BOOLEAN :
        /\ mounted = "AdminMonthlyStats"
        /\ memberStats' = IF ok THEN AdminComputeStats(month, leave_applications)
                          ELSE memberStats
        /\ adminLoading' = FALSE
        /\ fetches' = fetches \ {month}
        /\ UNCHANGED <<raceFixed, selectedMonth, stats, loading, adminSelectedMonth>>

NextRace ==
    \/ SetSelectedMonthEffect
    \/ FetchMonthlyStatsResponse
    \/ AdminSetSelectedMonthEffect
    \/ FetchAllMemberStatsResponse

SpecRace == InitRace /\ [][NextRace]_vars

(***************************************************************************)
(* Vocabulary of the properties.                                           *)
(***************************************************************************)
\* the per-user view shows the statistics of its selected month
MyFetched == mounted = "MyMonthlyStats" /\ ~loading

\* the team view shows the statistics of its selected month
AdminFetched == mounted = "AdminMonthlyStats" /\ ~adminLoading

\* the statistics rows on display: the view, the user, the month, the row
FetchedRows ==
    IF MyFetched
    THEN { [ view |-> "my", user |-> profile.id, ym |-> selectedMonth, row |-> stats ] }
    ELSE IF AdminFetched
    THEN { [ view |-> "admin", user |-> memberStats[i].id, ym |-> adminSelectedMonth,
             row |-> [ f \in DOMAIN stats |-> memberStats[i][f] ] ] :
           i \in 1..Len(memberStats) }
    ELSE {}

Weekdays(ym) == { d \in MonthDates(ym) : GetDay(d) \in 1..5 }
NonFridays(ym) == { d \in MonthDates(ym) : GetDay(d) \in {0, 1, 2, 3, 4, 6} }

\* the dates a view classifies, and the dates its totalDays counts
ClassifiedDates(x) == IF x.view = "my" THEN Weekdays(x.ym) ELSE NonFridays(x.ym)
CountedDates(x) == IF x.view = "my" THEN NonFridays(x.ym) ELSE Weekdays(x.ym)

\* today's date, on the user's calendar
Today == LocalDate(now)

Recorded(user, d) == \E r \in daily_attendance : r.user_id = user /\ r.date = d

RecordedAs(user, d, status) ==
    \E r \in daily_attendance : r.user_id = user /\ r.date = d /\ r.status = status

CoveredBy(user, d, statuses) ==
    \E l \in leave_applications :
        /\ l.user_id = user
        /\ l.status \in statuses
        /\ l.start_date <= d
        /\ d <= l.end_date

OnApprovedLeave(user, d) == CoveredBy(user, d, {"approved"})

\* the month is over at the evaluation time
MonthEnded(ym) == \A d \in MonthDates(ym) : d < Today

(***************************************************************************)
(* Properties.                                                             *)
(***************************************************************************)
\* working days with no record, not on leave and not yet passed
UnresolvedDays(x, days) ==
    { d \in days : ~Recorded(x.user, d) /\ ~OnApprovedLeave(x.user, d) /\ ~(d < Today) }

\* C1: in both views totalDays = presentDays + absentDays + leaveDays + the
\* number of unresolved working days, over the working days totalDays counts
C1_BucketsPartitionTotal ==
    \A x \in FetchedRows :
        x.row.totalDays = x.row.presentDays + x.row.absentDays + x.row.leaveDays
                            + Cardinality(UnresolvedDays(x, CountedDates(x)))

NoRowsInMonth(x) ==
    /\ \A d \in MonthDates(x.ym) : ~Recorded(x.user, d)
    /\ \A d \in MonthDates(x.ym) : ~OnApprovedLeave(x.user, d)

\* C2: no attendance record, no approved leave, month over:
\* absentDays = totalDays and attendanceRate = 0
C2_AllAbsentAfterMonthEnd ==
    \A x \in FetchedRows :
        (NoRowsInMonth(x) /\ MonthEnded(x.ym)) =>
            (x.row.absentDays = x.row.totalDays /\ x.row.attendanceRate = 0)

\* C3: approved leave over the entire month: leaveDays = totalDays,
\* presentDays = absentDays = 0 and attendanceRate = 100.0
C3_FullMonthLeave ==
    \A x \in FetchedRows :
        (\A d \in MonthDates(x.ym) : OnApprovedLeave(x.user, d)) =>
            /\ x.row.leaveDays = x.row.totalDays
            /\ x.row.presentDays = 0
            /\ x.row.absentDays = 0
            /\ x.row.attendanceRate = 1000

\* C4: a classified day with no record, not on leave, dated today or later is
\* counted neither present nor absent: only recorded days and days before
\* today are
C4_TodayAndFutureUnresolved ==
    \A x \in FetchedRows :
        x.row.presentDays + x.row.absentDays <=
            Cardinality({ d \in ClassifiedDates(x) :
                            /\ ~OnApprovedLeave(x.user, d)
                            /\ (Recorded(x.user, d) \/ d < Today) })

\* classified days with no record, not on leave, dated before today
ImplicitAbsences(x) ==
    { d \in ClassifiedDates(x) :
        ~Recorded(x.user, d) /\ ~OnApprovedLeave(x.user, d) /\ d < Today }

C7_LeaveWithinTotal ==
    \A x \in FetchedRows : x.row.leaveDays <= x.row.totalDays

\* the approved applications of a user that cover a date
ApprovedCovering(user, d) ==
    { l \in leave_applications :
        l.user_id = user /\ l.status = "approved" /\ l.start_date <= d /\ d <= l.end_date }

C9_RateRounding ==
    \A x \in FetchedRows :
        LET n == x.row.presentDays + x.row.leaveDays
            t == x.row.totalDays
            r == x.row.attendanceRate
        IN  /\ t = 0 => r = 0
            /\ t > 0 => /\ 2 * t * r - t <= 2000 * n
                        /\ 2000 * n < 2 * t * r + t

\* a rate on display was rounded up
C9_Witness ==
    \E x \in FetchedRows :
        /\ x.row.totalDays > 0
        /\ x.row.attendanceRate * x.row.totalDays
               > 1000 * (x.row.presentDays + x.row.leaveDays)

\* the approved applications of the store
ApprovedOnly == { l \in leave_applications : l.status = "approved" }

\* C10: pending and rejected applications change no field of the statistics:
\* what a view shows is what it computes from the approved applications alone
C10_OnlyApprovedCount ==
    /\ MyFetched => stats = MyComputeStats(selectedMonth, ApprovedOnly)
    /\ AdminFetched => memberStats = AdminComputeStats(adminSelectedMonth, ApprovedOnly)

\* a view has classified a day that only a pending or rejected application covers
C10_Witness ==
    \E x \in FetchedRows :
        \E d \in ClassifiedDates(x) :
            /\ CoveredBy(x.user, d, {"pending", "rejected"})
            /\ ~OnApprovedLeave(x.user, d)
            /\ Recorded(x.user, d)

\* C11: whatever markAttendance, handleSaveAttendance and
\* auto_mark_absent_members have done, in whatever order, daily_attendance
\* holds at most one record for each (user_id, date): there are as many
\* records as keys, so a write on an existing key has replaced the record
C11_OneRecordPerUserAndDate ==
    Cardinality({ <<r.user_id, r.date>> : r \in daily_attendance })
        = Cardinality(daily_attendance)

\* the record the page fetched for today has since been replaced by a write
\* on its key, next to a record of another member
C11_Witness ==
    /\ todayAttendance # Null
    /\ \E r \in daily_attendance :
           /\ r.user_id = profile.id
           /\ r.date = todayAttendance[1].date
           /\ r # todayAttendance[1]
    /\ \E q \in daily_attendance : q.user_id # profile.id

\* the place of a member in the answer of the active-members query
QueryPosition(member) ==
    LET members == ActiveMembers(profiles)
    IN  CHOOSE i \in 1..Len(members) : members[i] = member

\* C12: the rows of the team view are in descending order of attendanceRate,
\* and rows of the same rate are in the order of the active-members query
C12_SortedByRateStable ==
    AdminFetched =>
        \A i \in 1..Len(memberStats) : \A j \in 1..Len(memberStats) :
            i < j =>
                /\ memberStats[i].attendanceRate >= memberStats[j].attendanceRate
                /\ memberStats[i].attendanceRate = memberStats[j].attendanceRate =>
                       QueryPosition(memberStats[i].id) < QueryPosition(memberStats[j].id)

\* the sort has moved a member up past two members of one rate
C12_Witness ==
    /\ AdminFetched
    /\ Len(memberStats) = 3
    /\ QueryPosition(memberStats[1].id) = 3
    /\ memberStats[2].attendanceRate = memberStats[3].attendanceRate
    /\ memberStats[1].attendanceRate > memberStats[2].attendanceRate

\* one unit for each member row and each count up to the row's field: as many
\* units as the field adds up to over the rows on display
Units(field) ==
    UNION { { <<x.user, k>> : k \in 1..x.row[field] } : x \in FetchedRows }

\* C13: the team aggregate has totalMembers = the number of member rows,
\* totalPresent, totalAbsent and totalLeave = the sums of the rows' fields,
\* and averageAttendance = the mean of the rows' attendanceRate rounded to
\* one decimal (a tenth nearest to the mean), 0 when there is no row
C13_TeamAggregate ==
    AdminFetched =>
        LET t == TeamAverages(memberStats)
            n == Cardinality(FetchedRows)
            rates == Cardinality(Units("attendanceRate"))
        IN  /\ t.totalMembers = n
            /\ t.totalPresent = Cardinality(Units("presentDays"))
            /\ t.totalAbsent = Cardinality(Units("absentDays"))
            /\ t.totalLeave = Cardinality(Units("leaveDays"))
            /\ \A a \in t.averageAttendance :
                   IF n = 0 THEN a = 0
                   ELSE 2 * n * a - n <= 2 * rates /\ 2 * rates <= 2 * n * a + n

\* a team of three with present and leave days whose mean rate was rounded up
C13_Witness ==
    /\ AdminFetched
    /\ Len(memberStats) = 3
    /\ TeamAverages(memberStats).totalPresent > 0
    /\ TeamAverages(memberStats).totalLeave > 0
    /\ \E a \in TeamAverages(memberStats).averageAttendance :
           3 * a > Reduce(memberStats, "attendanceRate")

\* C14: the days a view iterates fall apart into the days on approved leave,
\* the other days recorded present and the remaining days; leaveDays counts
\* days of the first kind only, presentDays days of the second only, and
\* absentDays days of the third and of the second that presentDays has not
\* counted: no day is counted in two buckets, whatever its record says
C14_OneBucketPerDay ==
    \A x \in FetchedRows :
        LET onLeave == { d \in ClassifiedDates(x) : OnApprovedLeave(x.user, d) }
            others == ClassifiedDates(x) \ onLeave
        IN  /\ x.row.leaveDays <= Cardinality(onLeave)
            /\ x.row.presentDays <=
                   Cardinality({ d \in others : RecordedAs(x.user, d, "present") })
            /\ x.row.absentDays <= Cardinality(others) - x.row.presentDays

\* the team view has counted as leave, and not as present, a day on approved
\* leave that is recorded present
C14_Witness ==
    \E x \in FetchedRows :
        /\ x.view = "admin"
        /\ x.row.leaveDays >= 1
        /\ x.row.presentDays = 0
        /\ \E d \in ClassifiedDates(x) :
               /\ OnApprovedLeave(x.user, d)
               /\ RecordedAs(x.user, d, "present")
               /\ d <= EndDate(x.ym)

\* the applications that do not end before they start
WellFormedLeaves == { l \in leave_applications : l.start_date <= l.end_date }

\* C15: an approved application with end_date before start_date contributes
\* no leave day and does not stop the computation: every view shows the
\* statistics it computes from the store without such applications
C15_ReversedLeaveIgnored ==
    /\ MyFetched => stats = MyComputeStats(selectedMonth, WellFormedLeaves)
    /\ AdminFetched => memberStats = AdminComputeStats(adminSelectedMonth, WellFormedLeaves)

\* a view shows a month with classified days between the two ends of an
\* approved application that ends before it starts
C15_Witness ==
    \E x \in FetchedRows :
        \E l \in leave_applications :
            /\ l.user_id = x.user
            /\ l.status = "approved"
            /\ l.end_date < l.start_date
            /\ \E d \in ClassifiedDates(x) : l.end_date <= d /\ d <= l.start_date

\* February 2024 is over and the user of the row has 18 days recorded
\* present, 1 day recorded absent and approved leave on 26-27 February only
FebScenario(x) ==
    /\ x.ym = <<2024, 2>>
    /\ MonthEnded(x.ym)
    /\ Cardinality({ d \in MonthDates(x.ym) : RecordedAs(x.user, d, "present") }) = 18
    /\ Cardinality({ d \in MonthDates(x.ym) : RecordedAs(x.user, d, "absent") }) = 1
    /\ \A d \in MonthDates(x.ym) :
           OnApprovedLeave(x.user, d) <=>
               (DateNum(2024, 2, 26) <= d /\ d <= DateNum(2024, 2, 27))

\* C16: in that scenario the user's row is totalDays 21, presentDays 18,
\* absentDays 1, leaveDays 2, attendanceRate 95.2
C16_FebruaryExample ==
    \A x \in FetchedRows :
        FebScenario(x) =>
            x.row = [ totalDays |-> 21, presentDays |-> 18, absentDays |-> 1,
                      leaveDays |-> 2, attendanceRate |-> 952 ]

OffHours == LET hour == (now + tz) % 24 IN hour \notin 8..22

\* C18: markAttendance invoked when the local hour is below 8 or at least 23
\* writes nothing: while no call is in flight at such an hour, no step
\* uploads a screenshot, changes daily_attendance, sets isSubmitting or
\* invokes onAttendanceUpdate (which starts a fetch of today's record)
C18_NoWriteOutsideWorkingHours ==
    [][ (call.pc = "idle" /\ OffHours) =>
            /\ uploads' = uploads
            /\ daily_attendance' = daily_attendance
            /\ isSubmitting' = FALSE
            /\ call'.pc = "idle"
            /\ refetch' => refetch ]_vars

\* markAttendance was invoked outside the working hours with a screenshot
\* selected, and was turned down
C18_Witness ==
    /\ toast = "Outside working hours"
    /\ OffHours
    /\ screenshot # Null
    /\ call.pc = "idle"
    /\ ~isSubmitting
    /\ daily_attendance = {}
    /\ uploads = 0

\* C19: a record markAttendance writes has status present exactly when the
\* call had a screenshot selected, which it has uploaded, and absent
\* otherwise; its check_in_time is not null exactly when it is present
C19_StatusFromScreenshot ==
    [][ \A r \in daily_attendance' \ daily_attendance :
            /\ r.status = "present" <=> call.screenshot # Null
            /\ r.status = "absent" <=> call.screenshot = Null
            /\ r.status = "present" => (uploads > 0 /\ r.screenshot_url # Null)
            /\ r.check_in_time # Null <=> r.status = "present" ]_vars

\* the card has written a present record with an uploaded screenshot over
\* the absent record the page had fetched
C19_Witness ==
    /\ todayAttendance # Null
    /\ todayAttendance[1].status = "absent"
    /\ todayAttendance[1].check_in_time = Null
    /\ \E r \in daily_attendance :
           /\ r.user_id = profile.id
           /\ r.status = "present"
           /\ r.check_in_time # Null
           /\ r.screenshot_url # Null

\* C20: while the upload is awaited the call changes no record, and a call
\* that ends in the error toast, after a failed upload or a failed upsert,
\* does not invoke onAttendanceUpdate, keeps the selected screenshot and the
\* notes and leaves isSubmitting false; after a failed upload
\* daily_attendance is as it was
C20_FailureKeepsForm ==
    [][ /\ call.pc = "upload" => daily_attendance' = daily_attendance
        /\ (call.pc \in {"upload", "upsert"} /\ call'.pc = "idle" /\ toast' = "Error") =>
               /\ refetch' = refetch
               /\ screenshot' = screenshot
               /\ notes' = notes
               /\ isSubmitting' = FALSE ]_vars

\* a call with a screenshot and notes has failed and the form still holds both
C20_Witness ==
    /\ toast = "Error"
    /\ call.pc = "idle"
    /\ ~isSubmitting
    /\ ~refetch
    /\ screenshot # Null
    /\ notes # ""
    /\ daily_attendance = {}

\* the profiles auto_mark_absent_members has to mark for a date: active,
\* without record for the date and without approved leave covering it
Eligible(date) ==
    { profiles[i].id : i \in { j \in 1..Len(profiles) :
          /\ profiles[j].is_active
          /\ ~Recorded(profiles[j].id, date)
          /\ ~OnApprovedLeave(profiles[j].id, date) } }

\* C21: auto_mark_absent_members inserts nothing before 23:00; run from 23:00
\* on it takes the current date and exactly the active profiles without
\* record for that date and without approved leave covering it, and each
\* pass of its loop inserts the absent record of one of them (nothing if a
\* record has appeared meanwhile); a record of the job appears in no other
\* step, and never for an inactive profile or a profile on approved leave
C21_AutoMarkAbsent ==
    [][ /\ (autoMark = Null /\ CurrentTimeHour(now) < 23) => autoMark' = Null
        /\ (autoMark = Null /\ autoMark' # Null) =>
               /\ CurrentTimeHour(now) >= 23
               /\ autoMark'[1] = [ check_date |-> ISODate(now),
                                   members |-> Eligible(ISODate(now)) ]
               /\ daily_attendance' = daily_attendance
        /\ (autoMark # Null /\ autoMark' # autoMark) =>
               \E m \in autoMark[1].members :
                   LET check_date == autoMark[1].check_date
                       left == autoMark[1].members \ {m}
                   IN  /\ autoMark' = IF left = {} THEN Null
                                      ELSE << [ check_date |-> check_date, members |-> left ] >>
                       /\ daily_attendance' =
                              IF Recorded(m, check_date) THEN daily_attendance
                              ELSE daily_attendance \cup
                                     { [ user_id |-> m, date |-> check_date,
                                         status |-> "absent", screenshot_url |-> Null,
                                         check_in_time |-> Null,
                                         notes |-> AutoMarkRow(m, check_date).notes ] }
        /\ \A r \in daily_attendance' \ daily_attendance :
               r.notes = AutoMarkRow(r.user_id, r.date).notes =>
                   /\ CurrentTimeHour(now) >= 23
                   /\ autoMark # Null
                   /\ r.date = ISODate(now)
                   /\ r.status = "absent"
                   /\ r.user_id \in ActiveIds
                   /\ ~OnApprovedLeave(r.user_id, r.date) ]_vars

\* a run after 23:00 has ended: the active member without record has the
\* absent record of the job, the member on approved leave and the inactive
\* profile have none
C21_Witness ==
    /\ autoMark = Null
    /\ CurrentTimeHour(now) >= 23
    /\ AutoMarkRow("u2", ISODate(now)) \in daily_attendance
    /\ OnApprovedLeave("u1", ISODate(now))
    /\ ~Recorded("u1", ISODate(now))
    /\ ~Recorded("u3", ISODate(now))

\* C22: no step of auto_mark_absent_members removes or changes a record of
\* daily_attendance, whatever markAttendance and handleSaveAttendance have
\* written between its query and its inserts: a present or leave record of
\* a member the query had selected stays as it is
C22_AutoMarkKeepsRecords ==
    [][ autoMark' # autoMark =>
            /\ \A r \in daily_attendance : r \in daily_attendance'
            /\ \A r \in daily_attendance' :
                   r.status \in {"present", "leave"} => r \in daily_attendance ]_vars

\* the job has inserted the record of one member and still has to pass over
\* a member its query had selected, who has since got a present or a leave
\* record for the date
C22_Witness ==
    /\ autoMark # Null
    /\ autoMark[1].members = {"u1"}
    /\ AutoMarkRow("u2", autoMark[1].check_date) \in daily_attendance
    /\ \E r \in daily_attendance :
           /\ r.user_id = "u1"
           /\ r.date = autoMark[1].check_date
           /\ r.status \in {"present", "leave"}

\* C23: the form starts an insert only when the start date is not before
\* today's midnight on the user's clock, the end date is not before the
\* start date and the reason is not blank; every row that appears in
\* leave_applications is the one of the call in flight, pending, with
\* start_date <= end_date; a submission that is turned down, and an insert
\* that fails, add no row and leave the three fields as they are
C23_LeaveFormValidation ==
    [][ /\ (leaveCall = Null /\ leaveCall' # Null) =>
               /\ formData.startDate # Null =>
                      24 * formData.startDate[1] >= 24 * ((now + tz) \div 24) - tz
               /\ (formData.startDate # Null /\ formData.endDate # Null) =>
                      formData.endDate[1] >= formData.startDate[1]
               /\ formData.reason \notin {"", "   "}
               /\ leaveCall'[1].start_date = formData.startDate
               /\ leaveCall'[1].end_date = formData.endDate
               /\ leaveCall'[1].reason = formData.reason
               /\ leave_applications' = leave_applications
        /\ \A l \in leave_applications' \ leave_applications :
               /\ leaveCall # Null
               /\ leaveCall[1].start_date = << l.start_date >>
               /\ leaveCall[1].end_date = << l.end_date >>
               /\ l.status = "pending"
               /\ l.start_date <= l.end_date
               /\ l.user_id = profile.id
        /\ Cardinality(leave_applications') <= Cardinality(leave_applications) + 1
        /\ \A l \in leave_applications : l \in leave_applications'
        /\ (submits' # submits /\ leaveCall' = Null) =>
               (leave_applications' = leave_applications /\ formData' = formData)
        /\ (leaveCall # Null /\ leave_applications' = leave_applications) =>
               (leaveCall' = Null => formData' = formData) ]_vars

\* after an application was inserted, a submission with the end date before
\* the start date was turned down and the fields are as typed
C23_Witness ==
    /\ Cardinality(leave_applications) = 1
    /\ toast = "Invalid date range"
    /\ submits = 2
    /\ leaveCall = Null
    /\ formData.startDate # Null
    /\ formData.endDate # Null
    /\ formData.endDate[1] < formData.startDate[1]
    /\ formData.reason = "sick"

\* C24: when the admin saves an edit for another active member and the
\* upsert request gets through to the database, daily_attendance afterwards
\* holds a record of that member for today with the chosen status
C24_AdminSaveForOtherMember ==
    [][ ( /\ editingMember # Null
          /\ editingMember[1] # profile.id
          /\ editingMember[1] \in ActiveIds
          /\ HandleSaveAttendanceWith(TRUE) ) =>
            \E r \in daily_attendance' :
                /\ r.user_id = editingMember[1]
                /\ r.date = ISODate(now)
                /\ r.status = editData.status ]_vars

\* C25: an application whose stored status is approved or rejected keeps
\* its status, approved_by and approved_at in every later step
C25_DecisionIsFinal ==
    [][ \A l \in leave_applications :
            l.status \in {"approved", "rejected"} =>
                \E m \in leave_applications' :
                    /\ m.id = l.id
                    /\ m.status = l.status
                    /\ m.approved_by = l.approved_by
                    /\ m.approved_at = l.approved_at ]_vars

C27_RateWithinBounds ==
    \A x \in FetchedRows :
        x.row.attendanceRate >= 0 /\ x.row.attendanceRate <= 1000

\* classified days with a record of status leave and no approved leave
LeaveRecordDays(x) ==
    { d \in ClassifiedDates(x) :
        RecordedAs(x.user, d, "leave") /\ ~OnApprovedLeave(x.user, d) }

\* the attendance query of the view returns every record of the month
QueryCoversMonth(x) ==
    \A r \in daily_attendance :
        (r.user_id = x.user /\ r.date \in MonthDates(x.ym)) => r.date <= EndDate(x.ym)

\* C28: in a row computed over a day with a leave record and no approved
\* leave, leaveDays counts the days on approved leave only, and absentDays
\* counts such a day exactly when it is before today; the days with an
\* absent record and the days without record are counted as the views count
\* them
C28_LeaveRecordIsNoRecord ==
    \A x \in FetchedRows :
        (LeaveRecordDays(x) # {} /\ QueryCoversMonth(x)) =>
            /\ x.row.leaveDays =
                   Cardinality({ d \in ClassifiedDates(x) : OnApprovedLeave(x.user, d) })
            /\ x.row.absentDays =
                   Cardinality({ d \in ClassifiedDates(x) :
                       /\ ~OnApprovedLeave(x.user, d)
                       /\ \/ RecordedAs(x.user, d, "absent")
                          \/ RecordedAs(x.user, d, "leave") /\ d < Today
                          \/ ~Recorded(x.user, d) /\ 24 * d < now })

====
